---- MODULE Spec2Model ----
(***************************************************************************)
(* dyn/tm/services/active_failover.py: the HealthMonitor and               *)
(* ActiveFailover objects, the session they talk to and the remote         *)
(* Failover resource behind it.                                            *)
(*                                                                         *)
(* Python values are modelled as options: None is the empty tuple and a    *)
(* value v is <<v>>.  An instance __dict__ is a function from attribute    *)
(* names to such options, a JSON object a function from keys to plain      *)
(* values.  Every action is one whole public operation; the variables      *)
(* op, arg, wire, calls and ret describe the operation that ran last.      *)
(***************************************************************************)
EXTENDS Integers, Sequences, FiniteSets, TLC

VARIABLES
    hm,      \* the HealthMonitor the caller constructed: None or <<__dict__>>
    built,   \* the HealthMonitor only the ActiveFailover refers to, as _build
             \* made it from a response: None or <<__dict__>>
    afo,     \* the ActiveFailover object's attributes
    remote,  \* the Failover resource on the remote service: None or <<[cfg, active]>>
    op,      \* name of the operation that ran last
    arg,     \* its argument
    wire,    \* the session.execute exchanges it made, in order
    calls,   \* the activate()/deactivate() calls it made, in order
    ret,     \* how it ended: [kind |-> "ok" or the exception, value |-> what it returned]
    prev     \* afo._active as it was cached before the operation

vars == <<hm, built, afo, remote, op, arg, wire, calls, ret, prev>>

----------------------------------------------------------------------------
(* Python values *)

None == <<>>
Some(v) == <<v>>

Restrict(f, S) == [k \in S |-> f[k]]

Raise(kind) == [kind |-> kind, value |-> None]
Return(v) == [kind |-> "ok", value |-> v]

----------------------------------------------------------------------------
(* HealthMonitor *)

\* The validator tuples of the three validated attributes.
ProtocolValidator == {"HTTP", "HTTPS", "PING", "SMTP", "TCP"}
IntervalValidator == {1, 5, 10, 15}
TimeoutValidator == {10, 15, 25, 30}

\* The keys of a HealthMonitor's __dict__ that start with an underscore, each
\* with the key stripped of it (key[1:]).
StripUnderscore ==
    [k \in {"_protocol", "_interval", "_retries", "_timeout", "_port", "_path",
            "_host", "_header", "_expected"} |->
        CASE k = "_protocol" -> "protocol"
          [] k = "_interval" -> "interval"
          [] k = "_retries" -> "retries"
          [] k = "_timeout" -> "timeout"
          [] k = "_port" -> "port"
          [] k = "_path" -> "path"
          [] k = "_host" -> "host"
          [] k = "_header" -> "header"
          [] k = "_expected" -> "expected"]

StartsWithUnderscore(k) == k \in DOMAIN StripUnderscore

MonitorKeys == DOMAIN StripUnderscore \cup {"zone", "fqdn"}

\* HealthMonitor.__init__: every argument is stored as given, zone and fqdn
\* start unset.  a is the record of the nine arguments (options).
HealthMonitorInit(a) ==
    [k \in MonitorKeys |->
        IF StartsWithUnderscore(k) THEN a[StripUnderscore[k]] ELSE None]

\* to_json without the test on the key's first character
to_json_every_key(m) ==
    LET set == {k \in DOMAIN m : m[k] # None}
        name(k) == IF StartsWithUnderscore(k) THEN StripUnderscore[k] ELSE k
    IN  [j \in {"protocol", "interval"} \cup {name(k) : k \in set} |->
            IF j \in {"zone", "fqdn"} THEN m[j][1]
            ELSE m[CHOOSE k \in DOMAIN StripUnderscore : StripUnderscore[k] = j][1]]

\* HealthMonitor.to_json
to_json(m) ==
    LET set == {k \in DOMAIN m : m[k] # None /\ StartsWithUnderscore(k)}
        keys == {"protocol", "interval"} \cup {StripUnderscore[k] : k \in set}
        under(j) == CHOOSE k \in DOMAIN StripUnderscore : StripUnderscore[k] = j
    IN  [j \in keys |-> m[under(j)][1]]

\* HealthMonitor(**blob): the keyword arguments a JSON object gives, the
\* others at their default None.
HealthMonitorFromJson(blob) ==
    HealthMonitorInit(
        [j \in {StripUnderscore[k] : k \in DOMAIN StripUnderscore} |->
            IF j \in DOMAIN blob THEN Some(blob[j]) ELSE None])

\* '/Failover/{0}/{1}/'.format(zone, fqdn)
FailoverPath(zone, fqdn) == "/Failover/" \o zone \o "/" \o fqdn \o "/"

\* uri with the test on zone alone; format() writes a None as 'None'
MonitorUri_zone_only(m) ==
    IF m["zone"] # None
    THEN Return(FailoverPath(m["zone"][1],
                             IF m["fqdn"] = None THEN "None" ELSE m["fqdn"][1]))
    ELSE Raise("ValueError")

\* HealthMonitor.uri
MonitorUri(m) ==
    IF m["zone"] # None /\ m["fqdn"] # None
    THEN Return(FailoverPath(m["zone"][1], m["fqdn"][1]))
    ELSE Raise("ValueError")

----------------------------------------------------------------------------
(* The session and the remote service *)

\* What the caller of an operation cannot control: whether execute raises,
\* the activation state a new resource starts in, the monitor status the
\* service reports, and which of the keys monitor and active the answer to a
\* write leaves out.
Sessions(actives, statuses, drops) ==
    [ok : BOOLEAN, active : actives, status : statuses, drop : drops]

Reading == Sessions({"Y"}, {"up"}, {{}})
Probing == Sessions({"Y"}, {"up", "down"}, {{}})
Writing == Sessions({"Y", "N"}, {"up"}, SUBSET {"monitor", "active"})
Plain == Sessions({"Y"}, {"up"}, {{}, {"monitor"}})

Exchange(method, path, args, resp) ==
    [method |-> method, path |-> path, args |-> args, resp |-> resp]

\* The resource as the service represents it.
Representation(r, sess) ==
    r.cfg @@ [active |-> r.active, status |-> sess.status]

\* The resource after a PUT of args.
Put(r, args) ==
    LET flags == {"activate", "deactivate"}
        cfg == [k \in DOMAIN r.cfg \cup (DOMAIN args \ flags) |->
                   IF k \in DOMAIN args THEN args[k] ELSE r.cfg[k]]
        active == IF "activate" \in DOMAIN args THEN "Y"
                  ELSE IF "deactivate" \in DOMAIN args THEN "N"
                  ELSE r.active
    IN  [cfg |-> cfg, active |-> active]

\* DynectSession.execute(path, method, args) against the resource r that
\* lives at path home: the resource afterwards and the exchange made.  A
\* response of None stands for execute raising.
Execute(r, home, method, path, args, sess) ==
    LET failed == \/ ~sess.ok
                  \/ path # home
                  \/ method # "POST" /\ r = None
        r1 == CASE failed -> r
                [] method = "POST" -> Some([cfg |-> args[1], active |-> sess.active])
                [] method = "PUT" -> Some(Put(r[1], args[1]))
                [] OTHER -> r
        full == Representation(r1[1], sess)
        data == IF method = "GET" THEN full
                ELSE Restrict(full, DOMAIN full \ sess.drop)
    IN  [remote |-> r1,
         exch |-> Exchange(method, path, args, IF failed THEN None ELSE Some(data))]

----------------------------------------------------------------------------
(* ActiveFailover *)

Mandatory == {"address", "failover_mode", "failover_data", "contact_nickname"}
Optional == {"auto_recover", "notify_events", "syslog_server", "syslog_port",
             "syslog_ident", "syslog_facility", "ttl"}

\* The immutable attributes zone and fqdn of an ActiveFailover constructed
\* with them: its identity keys, set at construction.
Identity(zone, fqdn) == [zone |-> Some(zone), fqdn |-> Some(fqdn)]

\* ActiveFailover.__init__ with zone and fqdn alone: the uri is formatted, the
\* object stays pending and every tracked attribute is unset.
ActiveFailoverInit(zone, fqdn) ==
    [k \in {"zone", "fqdn", "uri", "monitor", "active"} \cup Mandatory \cup Optional |->
        CASE k \in {"zone", "fqdn"} -> Identity(zone, fqdn)[k]
          [] k = "uri" -> Some(FailoverPath(zone, fqdn))
          [] OTHER -> None]

\* The HealthMonitor a._monitor refers to: the caller's one or the built one.
MonitorOf(a, h, b) == IF a["monitor"] = Some("hm") THEN h[1] ELSE b[1]

\* Active(inp), and its truth value
Active(inp) == inp = "Y"

\* ActiveFailover.api_args
api_args(a, h, b) ==
    IF a["monitor"] = None
    THEN Raise("AttributeError")
    ELSE Return([address |-> a["address"][1],
                 failover_mode |-> a["failover_mode"][1],
                 failover_data |-> a["failover_data"][1],
                 monitor |-> to_json(MonitorOf(a, h, b)),
                 contact_nickname |-> a["contact_nickname"][1]])

\* APIObject._build: every key of data that names a tracked attribute is stored.
BaseBuild(a, data) ==
    [k \in DOMAIN a |->
        IF k \in DOMAIN data /\ k \in Mandatory \cup Optional
        THEN Some(data[k]) ELSE a[k]]

\* ActiveFailover._build: the object and the built monitor afterwards.
Build(a, b, data) ==
    LET a1 == IF "monitor" \in DOMAIN data
              THEN [a EXCEPT !["monitor"] = Some("built")] ELSE a
        b1 == IF "monitor" \in DOMAIN data
              THEN Some(HealthMonitorFromJson(data["monitor"])) ELSE b
        a2 == IF "active" \in DOMAIN data
              THEN [a1 EXCEPT !["active"] = Some(Active(data["active"]))] ELSE a1
    IN  [afo |-> BaseBuild(a2, Restrict(data, DOMAIN data \ {"monitor", "active"})),
         built |-> b1]

\* The state an operation works on and leaves: the objects, the remote
\* resource, the exchanges and activate()/deactivate() calls made so far and
\* how the operation ended.
World(a, h, b, r) ==
    [afo |-> a, hm |-> h, built |-> b, remote |-> r, wire |-> <<>>,
     calls |-> <<>>, ret |-> Return(None)]

\* An execute that raised: the exception leaves the operation.
Raised(w, x) ==
    [w EXCEPT !.remote = x.remote, !.wire = Append(@, x.exch),
              !.ret = Raise("SessionError")]

\* An execute that answered, and self._build(response['data']) after it.
Answered(w, x) ==
    LET bd == Build(w.afo, w.built, x.exch.resp[1])
    IN  [w EXCEPT !.afo = bd.afo, !.built = bd.built, !.remote = x.remote,
                  !.wire = Append(@, x.exch), !.ret = Return(None)]

\* _post without the assignment of ttl
PostAssign_without_ttl(w, c) ==
    [w EXCEPT !.afo = [k \in DOMAIN w.afo |->
                          IF k \in DOMAIN c \ {"ttl"} THEN c[k]
                          ELSE IF k = "monitor" THEN Some("hm") ELSE w.afo[k]],
              !.hm = Some([w.hm[1] EXCEPT !["zone"] = w.afo["zone"],
                                          !["fqdn"] = w.afo["fqdn"]])]

\* ActiveFailover._post, lines 169-182: the arguments are stored and the
\* monitor's back-references set, before any request.
PostAssign(w, c) ==
    [w EXCEPT !.afo = [k \in DOMAIN w.afo |->
                          IF k \in DOMAIN c THEN c[k]
                          ELSE IF k = "monitor" THEN Some("hm") ELSE w.afo[k]],
              !.hm = Some([w.hm[1] EXCEPT !["zone"] = w.afo["zone"],
                                          !["fqdn"] = w.afo["fqdn"]])]

\* ActiveFailover._post(address, ..., ttl), monitor being the caller's one
_post(w, c, sess) ==
    LET s == PostAssign(w, c)
        args == api_args(s.afo, s.hm, s.built)
        x == Execute(s.remote, s.afo["uri"][1], "POST", s.afo["uri"][1],
                     Some(args.value), sess)
    IN  IF x.exch.resp = None THEN Raised(s, x) ELSE Answered(s, x)

\* APIObject._get: GET the uri and build from the answer.
_get(w, sess) ==
    LET x == Execute(w.remote, w.afo["uri"][1], "GET", w.afo["uri"][1], None, sess)
    IN  IF x.exch.resp = None THEN Raised(w, x) ELSE Answered(w, x)

\* APIObject._update(**api_args): PUT them to the uri and build from the answer.
BaseUpdate(w, kw, sess) ==
    LET x == Execute(w.remote, w.afo["uri"][1], "PUT", w.afo["uri"][1], Some(kw), sess)
    IN  IF x.exch.resp = None THEN Raised(w, x) ELSE Answered(w, x)

\* ', '.join(seq)
RECURSIVE JoinCommaSpace(_)
JoinCommaSpace(seq) ==
    IF seq = <<>> THEN ""
    ELSE IF Len(seq) = 1 THEN seq[1]
    ELSE seq[1] \o ", " \o JoinCommaSpace(Tail(seq))

\* The keys of the api_args dict in the order iterating it yields them, and
\* each key as the sequence of its characters.
ApiArgsKeys ==
    <<"address", "failover_mode", "failover_data", "monitor", "contact_nickname">>

Characters(key) ==
    CASE key = "address" -> <<"a", "d", "d", "r", "e", "s", "s">>
      [] key = "failover_mode" ->
            <<"f", "a", "i", "l", "o", "v", "e", "r", "_", "m", "o", "d", "e">>
      [] key = "failover_data" ->
            <<"f", "a", "i", "l", "o", "v", "e", "r", "_", "d", "a", "t", "a">>
      [] key = "monitor" -> <<"m", "o", "n", "i", "t", "o", "r">>
      [] key = "contact_nickname" ->
            <<"c", "o", "n", "t", "a", "c", "t", "_", "n", "i", "c", "k", "n", "a",
              "m", "e">>

\* key, val = x for a string x: two targets take exactly two characters.
UnpackPair(x) ==
    IF Len(x) = 2 THEN Return(x) ELSE Raise("ValueError")

\* ActiveFailover._update, lines 193-195: for key, val in self.api_args, over
\* what iterating the dict yields.
RECURSIVE MergeApiArgs(_, _)
MergeApiArgs(kw, items) ==
    IF items = <<>> THEN Return(kw)
    ELSE LET u == UnpackPair(Characters(Head(items)))
             key == u.value[1]
             val == u.value[2]
         IN  IF u.kind # "ok" THEN u
             ELSE MergeApiArgs(IF key \notin DOMAIN kw THEN kw @@ (key :> val) ELSE kw,
                               Tail(items))

\* ActiveFailover._update(**api_args); a monitor among them is the caller's one
_update(w, kw, sess) ==
    LET kw1 == IF "monitor" \in DOMAIN kw
               THEN [kw EXCEPT !["monitor"] = to_json(w.hm[1])] ELSE kw
        kw2 == IF "notify_events" \in DOMAIN kw1
               THEN [kw1 EXCEPT !["notify_events"] = JoinCommaSpace(@)] ELSE kw1
        current == api_args(w.afo, w.hm, w.built)
        merged == MergeApiArgs(kw2, ApiArgsKeys)
    IN  IF current.kind # "ok" THEN [w EXCEPT !.ret = current]
        ELSE IF merged.kind # "ok" THEN [w EXCEPT !.ret = merged]
        ELSE BaseUpdate(w, merged.value, sess)

\* ActiveFailover.activate
activate(w, sess) ==
    _update([w EXCEPT !.calls = Append(@, "activate")], [activate |-> TRUE], sess)

\* ActiveFailover.deactivate
deactivate(w, sess) ==
    _update([w EXCEPT !.calls = Append(@, "deactivate")], [deactivate |-> TRUE], sess)

\* The read that answers from the state held before the fetch, when there is one
active_get_cached(w, sess) ==
    LET g == _get(w, sess)
    IN  IF g.ret.kind # "ok" THEN g
        ELSE IF w.afo["active"] # None THEN [g EXCEPT !.ret = Return(w.afo["active"][1])]
        ELSE [g EXCEPT !.ret = Return(g.afo["active"][1])]

\* ActiveFailover.active, read: fetch, then the active state the object holds
active_get(w, sess) ==
    LET g == _get(w, sess)
    IN  IF g.ret.kind # "ok" THEN g
        ELSE IF g.afo["active"] = None THEN [g EXCEPT !.ret = Raise("AttributeError")]
        ELSE [g EXCEPT !.ret = Return(g.afo["active"][1])]

\* value in tuple, by Python's ==: the literals are named by their repr, and
\* 1 == True, 0 == False.
PyEquals(x, y) ==
    \/ x = y
    \/ {x, y} = {"1", "True"}
    \/ {x, y} = {"0", "False"}

PyIn(value, tuple) == \E i \in 1..Len(tuple) : PyEquals(value, tuple[i])

\* The write that does not compare with the current state
active_set_unconditional(w, value, sess, sess2) ==
    LET g == active_get(w, sess)
    IN  IF PyIn(value, <<"'N'", "False">>)
        THEN IF g.ret.kind # "ok" THEN g ELSE deactivate(g, sess2)
        ELSE IF PyIn(value, <<"'Y'", "True">>)
        THEN IF g.ret.kind # "ok" THEN g ELSE activate(g, sess2)
        ELSE w

\* ActiveFailover.active, written.  The read in a condition is made only when
\* the membership test before it holds; the two tuples share no value, so an
\* assignment reads at most once.
active_set(w, value, sess, sess2) ==
    LET g == active_get(w, sess)
    IN  IF PyIn(value, <<"'N'", "False">>)
        THEN IF g.ret.kind # "ok" THEN g
             ELSE IF g.ret.value THEN deactivate(g, sess2)
             ELSE [g EXCEPT !.ret = Return(None)]
        ELSE IF PyIn(value, <<"'Y'", "True">>)
        THEN IF g.ret.kind # "ok" THEN g
             ELSE IF ~g.ret.value THEN activate(g, sess2)
             ELSE [g EXCEPT !.ret = Return(None)]
        ELSE w

\* HealthMonitor.status of monitor m
status(w, m, sess) ==
    LET u == MonitorUri(m)
        x == Execute(w.remote, w.afo["uri"][1], "GET", u.value, None, sess)
    IN  IF u.kind # "ok" THEN [w EXCEPT !.ret = u]
        ELSE IF x.exch.resp = None THEN Raised(w, x)
        ELSE [w EXCEPT !.wire = Append(@, x.exch),
                       !.ret = Return(x.exch.resp[1]["status"])]

----------------------------------------------------------------------------
(* Validated attributes *)

\* ValidatedAttribute.__set__ on a HealthMonitor: a value outside the
\* attribute's validator is refused, any other is stored.
Validated(w, name, value, validator) ==
    IF value \in validator
    THEN [w EXCEPT !.hm = Some([w.hm[1] EXCEPT ![name] = Some(value)])]
    ELSE [w EXCEPT !.ret = Raise("ValidationError")]

----------------------------------------------------------------------------
(* Inputs *)

Zones == {"example.com", "example.org"}
Fqdns == {"www.example.com"}

\* Some of a set of keys: none, any single one, or all of them.
SomeOf(keys) == {{}} \cup {{k} : k \in keys} \cup {keys}

MonitorOptions ==
    [retries |-> Some(3), timeout |-> Some(10), port |-> Some(8080),
     path |-> Some("/health"), host |-> Some("www.example.com"),
     header |-> Some("X-Probe: 1"), expected |-> Some("OK")]

\* HealthMonitor arguments: the required two and, of the optional seven, those in S.
MonitorArgs(protocol, interval, S) ==
    [k \in {"protocol", "interval"} \cup DOMAIN MonitorOptions |->
        CASE k = "protocol" -> Some(protocol)
          [] k = "interval" -> Some(interval)
          [] OTHER -> IF k \in S THEN MonitorOptions[k] ELSE None]

CreateOptions ==
    [auto_recover |-> Some("Y"), notify_events |-> Some(<<"ip", "svc">>),
     syslog_server |-> Some("log.example.com"), syslog_port |-> Some(514),
     syslog_ident |-> Some("dynect"), syslog_facility |-> Some("daemon"),
     ttl |-> Some(60)]

\* create arguments: the mandatory four beside the monitor and, of the
\* optional seven, those in S.
CreateArgs(address, S) ==
    [k \in Mandatory \cup Optional |->
        CASE k = "address" -> Some(address)
          [] k = "failover_mode" -> Some("ip")
          [] k = "failover_data" -> Some("198.51.100.7")
          [] k = "contact_nickname" -> Some("owner")
          [] OTHER -> IF k \in S THEN CreateOptions[k] ELSE None]

Addresses == {"192.0.2.1", "192.0.2.2"}

UpdateOptions ==
    [address |-> "192.0.2.9", monitor |-> "hm", notify_events |-> <<"ip", "nosrv">>,
     ttl |-> 30]

\* A Failover resource that exists on the service before the object does.
Existing ==
    [cfg |-> [address |-> "192.0.2.1", failover_mode |-> "ip",
              failover_data |-> "198.51.100.7",
              monitor |-> [protocol |-> "HTTP", interval |-> 5, timeout |-> 10],
              contact_nickname |-> "owner"],
     active |-> "Y"]

----------------------------------------------------------------------------
(* Operations *)

Begin == World(afo, hm, built, remote)

Finish(name, a, w) ==
    /\ afo' = w.afo
    /\ hm' = w.hm
    /\ built' = w.built
    /\ remote' = w.remote
    /\ wire' = w.wire
    /\ calls' = w.calls
    /\ ret' = w.ret
    /\ op' = name
    /\ arg' = a
    /\ prev' = afo["active"]

\* hm = HealthMonitor(...).  A monitor the caller held before and the
\* ActiveFailover still refers to is from now on referred to by it alone.
Construct(w, a) ==
    IF w.afo["monitor"] = Some("hm")
    THEN [w EXCEPT !.hm = Some(HealthMonitorInit(a)), !.built = w.hm,
                   !.afo = [w.afo EXCEPT !["monitor"] = Some("built")]]
    ELSE [w EXCEPT !.hm = Some(HealthMonitorInit(a))]

NewMonitor(a) ==
    /\ Finish("HealthMonitor", a, Construct(Begin, a))

\* hm.protocol = v, hm.interval = v, hm.timeout = v
SetProtocol(v) ==
    /\ hm # None
    /\ Finish("set_protocol", v, Validated(Begin, "_protocol", v, ProtocolValidator))

SetInterval(v) ==
    /\ hm # None
    /\ Finish("set_interval", v, Validated(Begin, "_interval", v, IntervalValidator))

SetTimeout(v) ==
    /\ hm # None
    /\ Finish("set_timeout", v, Validated(Begin, "_timeout", v, TimeoutValidator))

\* hm.zone = v, hm.fqdn = v: plain attributes
SetBackReference(name, v) ==
    /\ hm # None
    /\ Finish("set_" \o name, v, [Begin EXCEPT !.hm = Some([hm[1] EXCEPT ![name] = v])])

\* afo.create(address, ..., monitor = hm, ...)
Create(c, sess) ==
    /\ hm # None
    /\ Finish("create", c, _post(Begin, c, sess))

\* afo.update(**kw)
Update(kw, sess) ==
    /\ "monitor" \in DOMAIN kw => hm # None
    /\ Finish("update", kw, _update(Begin, kw, sess))

Activate(sess) ==
    /\ Finish("activate", None, activate(Begin, sess))

Deactivate(sess) ==
    /\ Finish("deactivate", None, deactivate(Begin, sess))

\* afo.active
GetActive(sess) ==
    /\ Finish("get_active", None, active_get(Begin, sess))

\* afo.active = value
SetActive(value, sess, sess2) ==
    /\ Finish("set_active", value, active_set(Begin, value, sess, sess2))

\* hm.status and afo.monitor.status
Status(sess) ==
    /\ hm # None
    /\ Finish("status", "hm", status(Begin, hm[1], sess))

OwnedStatus(sess) ==
    /\ afo["monitor"] # None
    /\ Finish("status", "afo.monitor", status(Begin, MonitorOf(afo, hm, built), sess))

\* hm.to_json()
Serialize ==
    /\ hm # None
    /\ Finish("to_json", None, [Begin EXCEPT !.ret = Return(to_json(hm[1]))])

\* The service activates or deactivates the resource on its own.
RemoteChange ==
    /\ remote # None
    /\ Finish("remote", None,
              [Begin EXCEPT !.remote = Some([remote[1] EXCEPT !.active =
                                                IF @ = "Y" THEN "N" ELSE "Y"])])

----------------------------------------------------------------------------
(* Specifications *)

Init ==
    /\ afo = ActiveFailoverInit("example.com", "www.example.com")
    /\ hm = None
    /\ built = None
    /\ remote \in {None, Some(Existing)}
    /\ op = "ActiveFailover"
    /\ arg = None
    /\ wire = <<>>
    /\ calls = <<>>
    /\ ret = Return(None)
    /\ prev = None

SetValues == {"'Y'", "True", "'N'", "False", "1", "0", "None"}

\* The operations on the HealthMonitor, over the arguments in monitors.
MonitorNext(monitors) ==
    \/ \E a \in monitors : NewMonitor(a)
    \/ \E v \in ProtocolValidator \cup {"FTP"} : SetProtocol(v)
    \/ \E v \in IntervalValidator \cup {2} : SetInterval(v)
    \/ \E v \in TimeoutValidator \cup {20} : SetTimeout(v)
    \/ \E v \in {None} \cup {Some(z) : z \in Zones} : SetBackReference("zone", v)
    \/ \E v \in {None} \cup {Some(f) : f \in Fqdns} : SetBackReference("fqdn", v)
    \/ \E sess \in Probing : Status(sess)

\* Creation, over the monitor arguments in monitors, the create arguments
\* in creates and the sessions in sessions.
CreateNext(monitors, creates, sessions) ==
    \/ \E a \in monitors : NewMonitor(a)
    \/ \E c \in creates, sess \in sessions : Create(c, sess)

\* The operations on a created ActiveFailover.
ServiceNext ==
    \/ \E S \in SomeOf(DOMAIN UpdateOptions), sess \in Plain :
          Update(Restrict(UpdateOptions, S), sess)
    \/ \E sess \in Plain : Activate(sess)
    \/ \E sess \in Plain : Deactivate(sess)
    \/ \E sess \in Reading : GetActive(sess)
    \/ \E v \in SetValues, sess \in Reading, sess2 \in Plain : SetActive(v, sess, sess2)
    \/ RemoteChange

\* The life of an ActiveFailover: construction of its monitor, creation,
\* updates, activation.
Next ==
    \/ CreateNext({MonitorArgs("HTTP", 5, {})}, {CreateArgs("192.0.2.1", {"ttl"})},
                  Writing)
    \/ ServiceNext

Spec == Init /\ [][Next]_vars

\* Creation with every choice of optional arguments, and the status of the
\* monitor the ActiveFailover then owns.
CreationNext ==
    \/ CreateNext({MonitorArgs("HTTP", 5, {}), MonitorArgs("PING", 1, {"timeout"})},
                  {CreateArgs(a, S) : a \in Addresses, S \in SomeOf(Optional)},
                  Plain)
    \/ \E sess \in Probing : OwnedStatus(sess)

CreateSpec == Init /\ [][CreationNext]_vars

\* Creation with monitors of every shape.
JsonNext ==
    \/ Serialize
    \/ CreateNext({MonitorArgs(p, 5, S) : p \in {"HTTP", "PING"},
                                       S \in SomeOf(DOMAIN MonitorOptions)},
                  {CreateArgs("192.0.2.1", {})}, Plain)

JsonSpec == Init /\ [][JsonNext]_vars

\* The HealthMonitor on its own, over valid and invalid arguments.
MonNext ==
    MonitorNext({[MonitorArgs(p, i, {}) EXCEPT !["timeout"] = t] :
                    p \in ProtocolValidator \cup {"FTP"},
                    i \in IntervalValidator \cup {2},
                    t \in {None} \cup {Some(x) : x \in TimeoutValidator \cup {20}}})

MonSpec == Init /\ [][MonNext]_vars

----------------------------------------------------------------------------
(* Properties *)

\* The exchanges of the last operation that are no GET.
Writes == {i \in 1..Len(wire) : wire[i].method # "GET"}

\* C1: an assignment of 'Y' or True to active fetches the state; it calls
\* activate() exactly once when the fetched state is inactive, and calls
\* nothing and writes nothing when it is active.  An assignment of 'N' or
\* False does the same with deactivate() and the states exchanged.  activate()
\* is never called for 'N'/False, deactivate() never for 'Y'/True.
C1_SetterCallsOnTransitionOnly ==
    (op = "set_active" /\ arg \in {"'Y'", "True", "'N'", "False"}) =>
        /\ Len(wire) >= 1
        /\ wire[1].method = "GET"
        /\ wire[1].resp = None => calls = <<>>
        /\ wire[1].resp # None =>
              LET fetched == wire[1].resp[1]["active"]
              IN  /\ arg \in {"'Y'", "True"} =>
                        calls = IF fetched = "N" THEN <<"activate">> ELSE <<>>
                  /\ arg \in {"'N'", "False"} =>
                        calls = IF fetched = "Y" THEN <<"deactivate">> ELSE <<>>
        /\ calls = <<>> => Writes = {}

C1_Witness ==
    /\ op = "set_active"
    /\ arg = "True"
    /\ wire[1].resp # None
    /\ wire[1].resp[1]["active"] = "N"
    /\ calls = <<"activate">>

\* C2: an update of a created ActiveFailover ends without error in a PUT whose
\* payload holds every key the caller gave and every mandatory field.
C2_UpdateSubmitsCompletePayload ==
    (op = "update" /\ afo["monitor"] # None) =>
        /\ ret.kind \in {"ok", "SessionError"}
        /\ Len(wire) = 1
        /\ wire[1].method = "PUT"
        /\ DOMAIN arg \cup Mandatory \cup {"monitor"} \subseteq DOMAIN wire[1].args[1]

\* C3: activate() on a created ActiveFailover hands the session one request,
\* whose payload is exactly {activate: true}; deactivate() one whose payload is
\* exactly {deactivate: true}.
C3_ActivateCarriesOneFlag ==
    /\ (op = "activate" /\ afo["monitor"] # None) =>
          /\ Len(wire) = 1
          /\ wire[1].args = Some([activate |-> TRUE])
    /\ (op = "deactivate" /\ afo["monitor"] # None) =>
          /\ Len(wire) = 1
          /\ wire[1].args = Some([deactivate |-> TRUE])

\* C4: after a create that succeeded with a monitor in the response body, the
\* HealthMonitor the ActiveFailover owns has the object's zone and fqdn.
C4_OwnedMonitorHasBackReferences ==
    (/\ op = "create"
     /\ ret.kind = "ok"
     /\ "monitor" \in DOMAIN wire[1].resp[1]) =>
        /\ MonitorOf(afo, hm, built)["zone"] = afo["zone"]
        /\ MonitorOf(afo, hm, built)["fqdn"] = afo["fqdn"]

\* C5: the POST payload of create holds the mandatory fields and every
\* optional field the caller supplied, with the supplied value.
C5_CreatePayloadHasOptionals ==
    op = "create" =>
        /\ wire[1].method = "POST"
        /\ \A k \in Mandatory :
              k \in DOMAIN wire[1].args[1] /\ wire[1].args[1][k] = arg[k][1]
        /\ "monitor" \in DOMAIN wire[1].args[1]
        /\ \A k \in Optional :
              arg[k] # None =>
                  k \in DOMAIN wire[1].args[1] /\ wire[1].args[1][k] = arg[k][1]

\* C6: construction of a HealthMonitor succeeds exactly for a protocol,
\* interval and timeout of the validators, and no HealthMonitor holds a
\* protocol, interval or timeout outside them.
C6_OnlyValidMonitors ==
    /\ op = "HealthMonitor" =>
          (ret.kind = "ok" <=>
              /\ arg["protocol"][1] \in ProtocolValidator
              /\ arg["interval"][1] \in IntervalValidator
              /\ arg["timeout"] # None => arg["timeout"][1] \in TimeoutValidator)
    /\ hm # None =>
          /\ hm[1]["_protocol"][1] \in ProtocolValidator
          /\ hm[1]["_interval"][1] \in IntervalValidator
          /\ hm[1]["_timeout"] # None => hm[1]["_timeout"][1] \in TimeoutValidator

\* C7, as claimed: a create whose request fails leaves the object's fields and
\* the passed monitor's zone and fqdn as they were before the call.
C7_FailedCreateChangesNothing ==
    [][(op' = "create" /\ ret'.kind = "SessionError") =>
          /\ \A k \in Mandatory \cup Optional \cup {"monitor"} : afo'[k] = afo[k]
          /\ hm'[1]["zone"] = hm[1]["zone"]
          /\ hm'[1]["fqdn"] = hm[1]["fqdn"]]_vars

\* C7, amended: after a create whose request fails, the object's fields hold
\* the arguments of that call, its monitor is the passed one with the object's
\* zone and fqdn, and its active state is the one held before the call; the one
\* exchange made is the POST.
C7_FailedCreateKeepsArguments ==
    (op = "create" /\ ret.kind = "SessionError") =>
        /\ \A k \in Mandatory \cup Optional : afo[k] = arg[k]
        /\ afo["monitor"] = Some("hm")
        /\ hm[1]["zone"] = afo["zone"]
        /\ hm[1]["fqdn"] = afo["fqdn"]
        /\ afo["active"] = prev
        /\ Len(wire) = 1
        /\ wire[1].method = "POST"
        /\ wire[1].resp = None

C7_Witness ==
    /\ op = "create"
    /\ ret.kind = "SessionError"
    /\ afo["ttl"] = Some(60)
    /\ afo["address"] = Some("192.0.2.2")
    /\ remote # None
    /\ remote[1].cfg["address"] = "192.0.2.1"

\* C8: status on a HealthMonitor whose zone or fqdn is unset raises a value
\* error and makes no request; with both set it makes exactly one GET, against
\* /Failover/{zone}/{fqdn}/, and returns the status field of the response.
C8_StatusNeedsBackReferences ==
    (op = "status" /\ arg = "hm") =>
        LET zone == hm[1]["zone"]
            fqdn == hm[1]["fqdn"]
        IN  /\ (zone = None \/ fqdn = None) =>
                  ret.kind = "ValueError" /\ wire = <<>>
            /\ (zone # None /\ fqdn # None) =>
                  /\ Len(wire) = 1
                  /\ wire[1].method = "GET"
                  /\ wire[1].path = "/Failover/" \o zone[1] \o "/" \o fqdn[1] \o "/"
                  /\ wire[1].resp # None => ret = Return(wire[1].resp[1]["status"])
                  /\ wire[1].resp = None => ret.kind = "SessionError"

C8_Witness ==
    /\ op = "status"
    /\ arg = "hm"
    /\ hm[1]["zone"] = Some("example.com")
    /\ hm[1]["fqdn"] = Some("www.example.com")
    /\ ret = Return("down")

\* The JSON object of HealthMonitor m as C9 describes it.
DescribesMonitor(blob, m) ==
    LET optional == {"retries", "timeout", "port", "path", "host", "header", "expected"}
    IN  /\ DOMAIN blob = {"protocol", "interval"}
                            \cup {k \in optional : m["_" \o k] # None}
        /\ \A k \in DOMAIN blob : blob[k] = m["_" \o k][1]

\* C9: to_json() of a HealthMonitor holds protocol and interval, each optional
\* field exactly when it is set, and neither zone nor fqdn, set or not; a
\* monitor of protocol HTTP and interval 5 alone gives exactly those two; and
\* the monitor key of the create payload is that object.
C9_MonitorJson ==
    LET plain == hm[1] \in {[HealthMonitorInit(MonitorArgs("HTTP", 5, {}))
                                EXCEPT !["zone"] = z, !["fqdn"] = f] :
                               z \in {None, afo["zone"]}, f \in {None, afo["fqdn"]}}
    IN  /\ op = "to_json" =>
              /\ DescribesMonitor(ret.value, hm[1])
              /\ plain => ret.value = [protocol |-> "HTTP", interval |-> 5]
        /\ op = "create" =>
              /\ DescribesMonitor(wire[1].args[1]["monitor"], hm[1])
              /\ plain => wire[1].args[1]["monitor"] = [protocol |-> "HTTP", interval |-> 5]

C9_Witness ==
    /\ op = "to_json"
    /\ hm[1]["zone"] # None
    /\ hm[1]["_port"] # None
    /\ hm[1]["_path"] = None
    /\ ret.value = [protocol |-> "PING", interval |-> 5, port |-> 8080]

\* C10: a read of active makes one GET of the object's uri and returns the
\* active state of that response, which is the remote state at the read.
C10_ReadFetches ==
    op = "get_active" =>
        /\ Len(wire) = 1
        /\ wire[1].method = "GET"
        /\ wire[1].path = afo["uri"][1]
        /\ wire[1].resp = None => ret.kind = "SessionError"
        /\ wire[1].resp # None =>
              /\ ret = Return(wire[1].resp[1]["active"] = "Y")
              /\ ret.value = (remote[1].active = "Y")

C10_Witness ==
    /\ op = "get_active"
    /\ ret.kind = "ok"
    /\ prev # None
    /\ prev[1] # ret.value

====
